---- MODULE Spec2Model ----
(***************************************************************************)
(* gobench (src/main.go): reads "go test -bench" output from standard      *)
(* input, keeps the pkg/goos/goarch context, turns every benchmark line    *)
(* into an index action plus a document, and either prints them or sends   *)
(* them to Elasticsearch in one bulk request.                               *)
(*                                                                         *)
(* Text is a sequence of symbols.  A symbol stands for a run of            *)
(* characters that no operation of the program splits ("Benchmark",       *)
(* "txs", "4386"); the characters the program looks for (" ", tab, "/",    *)
(* "_", ".", "-") are symbols of their own.                                *)
(***************************************************************************)
EXTENDS Integers, Sequences, FiniteSets, TLC

VARIABLES
    cfg,        \* elasticsearchConfig plus the -v and -tag flags
    env,        \* what the host and the version-control lookups answer
    pc,         \* position of main: "start", "scan", "done"
    exit,       \* "running", "ok" (return from main), "fatal" (log.Fatal), "panic"
    fatalMsg,   \* which log.Fatal call ended the run
    pkg, goos, goarch,  \* the run context of main
    input,      \* the lines scanner.Text() has returned so far
    buf,        \* bytes.Buffer behind the encoder in direct-send mode
    stdout,     \* what the encoder wrote to os.Stdout
    requests,   \* every client.Do call, with the response it got
    xline,      \* argument of a stand-alone parseExtraMetrics call
    xresult,    \* its result
    xpc,        \* "call" before a stand-alone call, "ret" after it
    xunits,     \* what a stand-alone encodeIndexOp wrote for xline: [fatal, units]
    vresp,      \* the answer to the GET of a stand-alone getEsVersion call
    vresult,    \* its result
    vreq        \* the request it made

vars == <<cfg, env, pc, exit, fatalMsg, pkg, goos, goarch, input, buf, stdout,
          requests, xline, xresult, xpc, xunits, vresp, vresult, vreq>>

callvars == <<xline, xresult, xpc, xunits, vresp, vresult, vreq>>

drivervars == <<cfg, env, pc, exit, fatalMsg, pkg, goos, goarch, input, buf,
                stdout, requests>>

-----------------------------------------------------------------------------
(* Bounds *)

\* lines read from standard input in one run
MaxLines == 3

\* columns after the third one in an argument of parseExtraMetrics
MaxExtraCols == 2

\* measurement columns of a line handed to a stand-alone encodeIndexOp
MaxMeasureCols == 2

-----------------------------------------------------------------------------
(* package strings, on sequences of symbols *)

SetMin(S) == CHOOSE x \in S : \A y \in S : x <= y

SetMax(S) == CHOOSE x \in S : \A y \in S : x >= y

IsSpace(c) == c \in {" ", "\t"}

\* strings.HasPrefix
HasPrefix(s, prefix) ==
    /\ Len(s) >= Len(prefix)
    /\ SubSeq(s, 1, Len(prefix)) = prefix

\* strings.TrimSpace
TrimSpace(s) ==
    LET keep == {i \in 1..Len(s) : ~IsSpace(s[i])}
    IN  IF keep = {} THEN <<>> ELSE SubSeq(s, SetMin(keep), SetMax(keep))

\* strings.Split(s, sep) for a one-symbol separator
RECURSIVE Split(_, _)
Split(s, sep) ==
    LET at == {i \in 1..Len(s) : s[i] = sep}
    IN  IF at = {} THEN <<s>>
        ELSE <<SubSeq(s, 1, SetMin(at) - 1)>>
                 \o Split(SubSeq(s, SetMin(at) + 1, Len(s)), sep)

\* strings.Fields: the maximal runs of non-space symbols
RECURSIVE Fields(_)
Fields(s) ==
    LET t == TrimSpace(s)
        sp == {i \in 1..Len(t) : IsSpace(t[i])}
    IN  IF t = <<>> THEN <<>>
        ELSE IF sp = {} THEN <<t>>
        ELSE <<SubSeq(t, 1, SetMin(sp) - 1)>>
                 \o Fields(SubSeq(t, SetMin(sp) + 1, Len(t)))

\* strings.ReplaceAll(s, old, new) for one-symbol old and new
ReplaceAll(s, old, new) ==
    [i \in 1..Len(s) |-> IF s[i] = old THEN new ELSE s[i]]

-----------------------------------------------------------------------------
(* package strconv.  A float64 is [nan, v]: v is the number, nan says the  *)
(* value is NaN (which ParseFloat accepts and encoding/json rejects).      *)

Float(v) == [nan |-> FALSE, v |-> v]

NaN == [nan |-> TRUE, v |-> 0]

\* the numerals of the model and the integer each denotes
IntNumerals ==
    ("0" :> 0) @@ ("1" :> 1) @@ ("5" :> 5) @@ ("6" :> 6) @@ ("7" :> 7)
    @@ ("8" :> 8) @@ ("9" :> 9) @@ ("11" :> 11) @@ ("100" :> 100)
    @@ ("200" :> 200) @@ ("4386" :> 4386)

\* numerals only ParseFloat accepts ("7.0" denotes the same number as "7")
FloatNumerals == ("7.0" :> Float(7)) @@ ("NaN" :> NaN)

\* strconv.Atoi / strconv.ParseUint: [ok, v]
ParseInt(tok) ==
    IF Len(tok) = 1 /\ tok[1] \in DOMAIN IntNumerals
    THEN [ok |-> TRUE, v |-> IntNumerals[tok[1]]]
    ELSE [ok |-> FALSE, v |-> 0]

\* strconv.ParseFloat(tok, 64): [ok, v]
ParseFloat(tok) ==
    IF Len(tok) = 1 /\ tok[1] \in DOMAIN IntNumerals
    THEN [ok |-> TRUE, v |-> Float(IntNumerals[tok[1]])]
    ELSE IF Len(tok) = 1 /\ tok[1] \in DOMAIN FloatNumerals
    THEN [ok |-> TRUE, v |-> FloatNumerals[tok[1]]]
    ELSE [ok |-> FALSE, v |-> Float(0)]

-----------------------------------------------------------------------------
(* parseExtraMetrics *)

NsOpLabel == <<"ns", "/", "op">>

MBsLabel == <<"MB", "/", "s">>

BOpLabel == <<"B", "/", "op">>

AllocsOpLabel == <<"allocs", "/", "op">>

\* the labels of the switch in parseExtraMetrics
NativeLabels == {NsOpLabel, MBsLabel, BOpLabel, AllocsOpLabel}

\* a map[string]float64 that is nil
NilMap == [nil |-> TRUE, m |-> <<>>]

\* result[key] = value
MapPut(m, key, value) == (key :> value) @@ m

\* ExtraEntry keeping the value a key already has
ExtraEntryKeepFirst(result, entry) ==
    LET parts == Split(TrimSpace(entry), " ")
    IN  IF Len(parts) < 2 THEN result
        ELSE LET key == TrimSpace(parts[2])
                 value == ParseFloat(TrimSpace(parts[1]))
             IN  IF ~value.ok THEN result
                 ELSE IF key \in NativeLabels THEN result
                 ELSE result @@ (ReplaceAll(key, "/", "_") :> value.v)

\* one pass of the loop body of parseExtraMetrics: result after entry
ExtraEntry(result, entry) ==
    LET parts == Split(TrimSpace(entry), " ")
    IN  IF Len(parts) < 2 THEN result
        ELSE LET key == TrimSpace(parts[2])
                 value == ParseFloat(TrimSpace(parts[1]))
             IN  IF ~value.ok THEN result
                 ELSE IF key \in NativeLabels THEN result
                 ELSE MapPut(result, ReplaceAll(key, "/", "_"), value.v)

\* the loop of parseExtraMetrics over entries[3:]
RECURSIVE ExtraLoop(_, _)
ExtraLoop(result, entries) ==
    IF entries = <<>> THEN result
    ELSE ExtraLoop(ExtraEntry(result, Head(entries)), Tail(entries))

\* parseExtraMetrics without the final test of len(result)
parseExtraMetricsEmpty(line) ==
    LET entries == Split(line, "\t")
    IN  IF Len(entries) < 3 THEN NilMap
        ELSE [nil |-> FALSE, m |-> ExtraLoop(<<>>, SubSeq(entries, 4, Len(entries)))]

\* parseExtraMetrics(line): a map, or nil
parseExtraMetrics(line) ==
    LET entries == Split(line, "\t")
    IN  IF Len(entries) < 3 THEN NilMap
        ELSE LET result == ExtraLoop(<<>>, SubSeq(entries, 4, Len(entries)))
             IN  IF Cardinality(DOMAIN result) > 0
                 THEN [nil |-> FALSE, m |-> result]
                 ELSE NilMap

-----------------------------------------------------------------------------
(* github.com/blang/semver, as main.go uses it *)

\* the position of the n-th occurrence of sep in s, 0 when there is none
NthIndex(s, sep, n) ==
    LET at == {i \in 1..Len(s) : s[i] = sep
                                 /\ Cardinality({j \in 1..i : s[j] = sep}) = n}
    IN  IF at = {} THEN 0 ELSE SetMin(at)

\* semver.New(s): [ok, major, minor, patch, pre].  The string is cut at its
\* first two dots; the third part is the patch number, then "-" and the
\* pre-release identifiers.
semverNew(s) ==
    LET bad == [ok |-> FALSE, major |-> 0, minor |-> 0, patch |-> 0, pre |-> <<>>]
        d1 == NthIndex(s, ".", 1)
        d2 == NthIndex(s, ".", 2)
    IN  IF s = <<>> \/ d1 = 0 \/ d2 = 0 THEN bad
        ELSE LET major == ParseInt(SubSeq(s, 1, d1 - 1))
                 minor == ParseInt(SubSeq(s, d1 + 1, d2 - 1))
                 rest == SubSeq(s, d2 + 1, Len(s))
                 dash == NthIndex(rest, "-", 1)
                 patchStr == IF dash = 0 THEN rest ELSE SubSeq(rest, 1, dash - 1)
                 pre == IF dash = 0 THEN <<>>
                        ELSE Split(SubSeq(rest, dash + 1, Len(rest)), ".")
                 patch == ParseInt(patchStr)
             IN  IF ~major.ok \/ ~minor.ok \/ ~patch.ok
                    \/ (\E i \in 1..Len(pre) : pre[i] = <<>>)
                 THEN bad
                 ELSE [ok |-> TRUE, major |-> major.v, minor |-> minor.v,
                       patch |-> patch.v, pre |-> pre]

\* the pre-release identifiers of the model, in ASCII order
PreOrder == <<"beta1", "rc1">>

PreRank(id) == CHOOSE i \in 1..Len(PreOrder) : PreOrder[i] = id[1]

\* Version.Compare on the pre-release part, both non-empty: identifier by
\* identifier, a shorter list that is a prefix of the other is the lower
RECURSIVE PreLess(_, _)
PreLess(p, q) ==
    IF q = <<>> THEN FALSE
    ELSE IF p = <<>> THEN TRUE
    ELSE IF Head(p) = Head(q) THEN PreLess(Tail(p), Tail(q))
    ELSE PreRank(Head(p)) < PreRank(Head(q))

\* Version.LT(o): Compare(o) = -1
semverLT(v, o) ==
    IF v.major # o.major THEN v.major < o.major
    ELSE IF v.minor # o.minor THEN v.minor < o.minor
    ELSE IF v.patch # o.patch THEN v.patch < o.patch
    ELSE IF v.pre = <<>> THEN FALSE
    ELSE IF o.pre = <<>> THEN TRUE
    ELSE PreLess(v.pre, o.pre)

\* semver.MustParse("7.0.0")
V700 == semverNew(<<"7", ".", "0", ".", "0">>)

\* semver.MustParse("8.0.0")
V800 == semverNew(<<"8", ".", "0", ".", "0">>)

\* createMapping: esVersion.LT(semver.MustParse("7.0.0"))
includeTypeName(esVersion) == semverLT(esVersion, V700)

\* includeTypDoc with the threshold of includeTypeName
includeTypDocBelow7(esVersion) == semverLT(esVersion, V700)

\* encodeIndexOp: esVersion.LT(semver.MustParse("8.0.0"))
includeTypDoc(esVersion) == semverLT(esVersion, V800)

-----------------------------------------------------------------------------
(* golang.org/x/tools/benchmark/parse, as main.go uses it *)

\* Benchmark.parseMeasurement(quant, unit)
parseMeasurement(b, quant, unit) ==
    IF unit = NsOpLabel /\ ParseFloat(quant).ok
    THEN [b EXCEPT !.NsPerOp = ParseFloat(quant).v,
                   !.Measured = @ \cup {"NsPerOp"}]
    ELSE IF unit = MBsLabel /\ ParseFloat(quant).ok
    THEN [b EXCEPT !.MBPerS = ParseFloat(quant).v,
                   !.Measured = @ \cup {"MBPerS"}]
    ELSE IF unit = BOpLabel /\ ParseInt(quant).ok
    THEN [b EXCEPT !.AllocedBytesPerOp = ParseInt(quant).v,
                   !.Measured = @ \cup {"AllocedBytesPerOp"}]
    ELSE IF unit = AllocsOpLabel /\ ParseInt(quant).ok
    THEN [b EXCEPT !.AllocsPerOp = ParseInt(quant).v,
                   !.Measured = @ \cup {"AllocsPerOp"}]
    ELSE b

\* the loop of ParseLine over the pairs of fields after the first pair
RECURSIVE parseMeasurements(_, _, _)
parseMeasurements(b, fields, i) ==
    IF 2 * i + 2 > Len(fields) THEN b
    ELSE parseMeasurements(parseMeasurement(b, fields[2 * i + 1], fields[2 * i + 2]),
                           fields, i + 1)

\* parse.ParseLine(line): [ok, b]
ParseLine(line) ==
    LET fields == Fields(line)
        zero == [Name |-> <<>>, N |-> 0, NsPerOp |-> Float(0), MBPerS |-> Float(0),
                 AllocedBytesPerOp |-> 0, AllocsPerOp |-> 0, Measured |-> {}]
    IN  IF Len(fields) < 2 THEN [ok |-> FALSE, b |-> zero]
        ELSE IF ~HasPrefix(fields[1], <<"Benchmark">>) THEN [ok |-> FALSE, b |-> zero]
        ELSE IF ~ParseInt(fields[2]).ok THEN [ok |-> FALSE, b |-> zero]
        ELSE [ok |-> TRUE,
              b |-> parseMeasurements(
                        [zero EXCEPT !.Name = fields[1], !.N = ParseInt(fields[2]).v],
                        fields, 1)]

-----------------------------------------------------------------------------
(* The store's answers.  A response is [transport, status, body]: transport *)
(* says that client.Do returned an error and no response; body is the      *)
(* stream of JSON values a json.Decoder can still read from resp.Body.     *)

\* a JSON value of a body: valid is FALSE for bytes that do not decode;
\* number is version.number; error is "none", "string" (error is not an
\* object) or "object"; type is error.type ("" when it is no string)
Json(valid, number, error, type) ==
    [valid |-> valid, number |-> number, error |-> error, type |-> type]

Garbage == Json(FALSE, <<>>, "none", "")

Ack == Json(TRUE, <<>>, "none", "")

VersionJson(number) == Json(TRUE, number, "none", "")

ErrorJson(type) == Json(TRUE, <<>>, "object", type)

ErrorString == Json(TRUE, <<>>, "string", "")

TransportError == [transport |-> TRUE, status |-> 0, body |-> <<>>]

Http(status, body) == [transport |-> FALSE, status |-> status, body |-> body]

exceptionResourceAlreadyExists == "resource_already_exists_exception"

\* what client.Do can answer to the GET of getEsVersion: with no host the
\* client rejects the request itself (unsupported protocol scheme "")
VersionResponses ==
    IF cfg.host = <<>> THEN {TransportError}
    ELSE {TransportError,
          Http(401, <<ErrorJson("security_exception")>>),
          Http(200, <<Garbage>>),
          Http(200, <<VersionJson(env.esVersion)>>)}

\* what client.Do can answer to the PUT of createMapping
MappingResponses ==
    {TransportError,
     Http(200, <<Ack>>),
     Http(200, <<Garbage>>),
     Http(400, <<ErrorJson(exceptionResourceAlreadyExists)>>),
     Http(400, <<ErrorJson("mapper_parsing_exception")>>),
     Http(400, <<ErrorJson("")>>),
     Http(404, <<ErrorString>>),
     Http(502, <<Garbage>>)}

\* what client.Do can answer to the POST of the bulk request
BulkResponses ==
    {TransportError,
     Http(200, <<Ack>>),
     Http(200, <<Garbage>>),
     Http(200, <<>>),
     Http(400, <<ErrorJson("illegal_argument_exception")>>)}

\* json.NewDecoder(resp.Body).Decode(&v): [ok, v, rest].  A decoder reads
\* ahead, so the bytes after the value it returns are gone with it.
Decode(body) ==
    IF body = <<>> \/ ~Head(body).valid
    THEN [ok |-> FALSE, v |-> Garbage, rest |-> <<>>]
    ELSE [ok |-> TRUE, v |-> Head(body), rest |-> <<>>]

\* req.SetBasicAuth(cfg.user, cfg.pass) when set, no Authorization header
\* otherwise
BasicAuth(set) ==
    IF set THEN [set |-> TRUE, user |-> cfg.user, pass |-> cfg.pass]
    ELSE [set |-> FALSE, user |-> "", pass |-> ""]

\* the test before SetBasicAuth in getEsVersion
versionAuth == BasicAuth(cfg.user # "" \/ cfg.pass # "")

\* the test before SetBasicAuth in createMapping
mappingAuth == BasicAuth(cfg.user # "" /\ cfg.pass # "")

\* the test before SetBasicAuth in main
bulkAuth == BasicAuth(cfg.user # "" /\ cfg.pass # "")

\* an entry of requests
Request(kind, url, nested, body, auth, resp) ==
    [kind |-> kind, url |-> url, nested |-> nested, body |-> body, auth |-> auth,
     resp |-> resp]

\* an error value: the format of its message and the status code in it
Err(msg, code) == [msg |-> msg, code |-> code]

ErrNil == Err("", 0)

-----------------------------------------------------------------------------
(* getEsVersion, handleResponse, createMapping *)

\* getEsVersion without the test of the status code
getEsVersionAnyStatus(resp) ==
    LET none == semverNew(<<>>)
    IN  IF resp.transport
        THEN [ok |-> FALSE, version |-> none, err |-> Err("client.Do", 0)]
        ELSE IF ~Decode(resp.body).ok
        THEN [ok |-> FALSE, version |-> none, err |-> Err("json.Decode", 0)]
        ELSE LET v == semverNew(Decode(resp.body).v.number)
             IN  [ok |-> v.ok, version |-> v,
                  err |-> IF v.ok THEN ErrNil ELSE Err("semver.New", 0)]

\* getEsVersion(cfg), the client answering resp: [ok, version, err]
getEsVersion(resp) ==
    LET none == semverNew(<<>>)
    IN  IF resp.transport
        THEN [ok |-> FALSE, version |-> none, err |-> Err("client.Do", 0)]
        ELSE IF resp.status # 200
        THEN [ok |-> FALSE, version |-> none,
              err |-> Err("received unexpected %d status code", resp.status)]
        ELSE IF ~Decode(resp.body).ok
        THEN [ok |-> FALSE, version |-> none, err |-> Err("json.Decode", 0)]
        ELSE LET v == semverNew(Decode(resp.body).v.number)
             IN  [ok |-> v.ok, version |-> v,
                  err |-> IF v.ok THEN ErrNil ELSE Err("semver.New", 0)]

\* handleResponse(resp) with *verboseFlag = verbose: res is "nil", "error" (errors.Errorf), "esError"
\* (with its type), "fatal" (log.Fatal on the decode) or "panic" (the type
\* assertion on error.type)
handleResponseWith(resp, verbose) ==
    IF ~verbose /\ resp.status = 200 THEN [res |-> "nil", type |-> ""]
    ELSE IF ~Decode(resp.body).ok THEN [res |-> "fatal", type |-> ""]
    ELSE IF resp.status = 200 THEN [res |-> "nil", type |-> ""]
    ELSE IF Decode(resp.body).v.error # "object" THEN [res |-> "error", type |-> ""]
    ELSE IF Decode(resp.body).v.type = "" THEN [res |-> "panic", type |-> ""]
    ELSE [res |-> "esError", type |-> Decode(resp.body).v.type]

\* handleResponse(resp) under the -v flag of the run
handleResponse(resp) == handleResponseWith(resp, cfg.verbose)

\* mappingResult without the resource_already_exists_exception case
mappingResultStrict(resp) ==
    IF resp.transport THEN "error"
    ELSE LET h == handleResponse(resp)
         IN  IF h.res = "esError" THEN "error" ELSE h.res

\* createMapping after the PUT was answered, with *verboseFlag = verbose:
\* "nil", "error", "fatal", "panic"
mappingResultWith(resp, verbose) ==
    IF resp.transport THEN "error"
    ELSE LET h == handleResponseWith(resp, verbose)
         IN  IF h.res = "esError"
             THEN IF h.type = exceptionResourceAlreadyExists THEN "nil" ELSE "error"
             ELSE h.res

\* createMapping after the PUT was answered, under the -v flag of the run
mappingResult(resp) == mappingResultWith(resp, cfg.verbose)

\* createMapping(cfg), the client answering rv to the GET and rm to the
\* PUT: [res, reqs], reqs being the requests it made
createMapping(rv, rm) ==
    LET esVersion == getEsVersion(rv)
        get == Request("version", cfg.host, FALSE, <<>>, versionAuth, rv)
    IN  IF ~esVersion.ok THEN [res |-> "error", reqs |-> <<get>>]
        ELSE [res |-> mappingResult(rm),
              reqs |-> <<get, Request("mapping", cfg.host \o <<"/">> \o cfg.index,
                                      includeTypeName(esVersion.version), <<>>,
                                      mappingAuth, rm)>>]

-----------------------------------------------------------------------------
(* encodeIndexOp.  A document is a function from field names to values; a  *)
(* unit is one value the json.Encoder wrote: [kind, index, type, doc, src],*)
(* src being the number of the input line it was written for.              *)

\* time.Now().UTC(), taken once in main
Timestamp == <<"2022-03-01T00:00:00Z">>

\* doc[key] = value
DocPut(doc, key, value) == (key :> value) @@ doc

\* addHost(doc)
addHost(doc) ==
    LET d1 == IF env.hostname THEN DocPut(doc, "hostname", <<"host1">>) ELSE doc
    IN  IF env.uname THEN DocPut(d1, "os_version", <<"5.10">>) ELSE d1

\* addVCS(pkgpath, doc): build.Import fails on the empty path
addVCS(pkgpath, doc) ==
    IF pkgpath = <<>> \/ ~env.vcs THEN doc
    ELSE DocPut(doc, "git", [commit |-> <<"abc">>, subject |-> <<"fix">>,
                             committer |-> [date |-> <<"2022-02-01T00:00:00Z">>]])

\* for key, value := range tags { doc[key] = value }
RECURSIVE addTags(_, _)
addTags(doc, keys) ==
    IF keys = {} THEN doc
    ELSE LET k == CHOOSE k \in keys : TRUE
         IN  addTags(DocPut(doc, k, cfg.tags[k]), keys \ {k})

\* benchDoc writing ns_per_op whatever the flag says
benchDocAlways(b, p, os, arch) ==
    LET d0 == [executed_at |-> Timestamp, name |-> b.Name, iterations |-> b.N,
               pkg |-> p, go_version |-> <<"go1.17">>, goos |-> os, goarch |-> arch,
               ns_per_op |-> b.NsPerOp]
        d2 == IF "MBPerS" \in b.Measured THEN DocPut(d0, "mb_per_s", b.MBPerS) ELSE d0
        d3 == IF "AllocedBytesPerOp" \in b.Measured
              THEN DocPut(d2, "alloced_bytes_per_op", b.AllocedBytesPerOp) ELSE d2
        d4 == IF "AllocsPerOp" \in b.Measured
              THEN DocPut(d3, "allocs_per_op", b.AllocsPerOp) ELSE d3
    IN  IF Cardinality(DOMAIN b.extra.m) > 0
        THEN DocPut(d4, "extra_metrics", b.extra.m) ELSE d4

\* the fields encodeIndexOp sets from the benchmark (lines 395-419)
benchDoc(b, p, os, arch) ==
    LET d0 == [executed_at |-> Timestamp, name |-> b.Name, iterations |-> b.N,
               pkg |-> p, go_version |-> <<"go1.17">>, goos |-> os, goarch |-> arch]
        d1 == IF "NsPerOp" \in b.Measured THEN DocPut(d0, "ns_per_op", b.NsPerOp) ELSE d0
        d2 == IF "MBPerS" \in b.Measured THEN DocPut(d1, "mb_per_s", b.MBPerS) ELSE d1
        d3 == IF "AllocedBytesPerOp" \in b.Measured
              THEN DocPut(d2, "alloced_bytes_per_op", b.AllocedBytesPerOp) ELSE d2
        d4 == IF "AllocsPerOp" \in b.Measured
              THEN DocPut(d3, "allocs_per_op", b.AllocsPerOp) ELSE d3
    IN  IF Cardinality(DOMAIN b.extra.m) > 0
        THEN DocPut(d4, "extra_metrics", b.extra.m) ELSE d4

\* buildDoc with the tags merged before the host and the version-control
\* facts
buildDocTagsFirst(b, p, os, arch) ==
    addVCS(p, addHost(addTags(benchDoc(b, p, os, arch), DOMAIN cfg.tags)))

\* the document of encodeIndexOp (lines 395-425)
buildDoc(b, p, os, arch) ==
    addTags(addVCS(p, addHost(benchDoc(b, p, os, arch))), DOMAIN cfg.tags)

\* encoder.Encode(doc) fails on a float64 that is NaN, unless a tag has
\* replaced the field by a string
encodeFails(b) ==
    \/ "NsPerOp" \in b.Measured /\ b.NsPerOp.nan /\ "ns_per_op" \notin DOMAIN cfg.tags
    \/ "MBPerS" \in b.Measured /\ b.MBPerS.nan /\ "mb_per_s" \notin DOMAIN cfg.tags
    \/ /\ "extra_metrics" \notin DOMAIN cfg.tags
       /\ \E k \in DOMAIN b.extra.m : b.extra.m[k].nan

ActionUnit(type, src) ==
    [kind |-> "action", index |-> cfg.index, type |-> type, doc |-> <<>>, src |-> src]

DocUnit(doc, src) ==
    [kind |-> "doc", index |-> <<>>, type |-> <<>>, doc |-> doc, src |-> src]

\* encoder.Encode("\n")
NewlineUnit(src) ==
    [kind |-> "string", index |-> <<>>, type |-> <<>>, doc |-> <<>>, src |-> src]

\* the units encodeIndexOp writes once the version is known (lines 432-455):
\* [fatal, units]
encodeUnits(b, p, os, arch, esVersion, src) ==
    LET indexAction == ActionUnit(IF includeTypDoc(esVersion) THEN <<"_doc">> ELSE <<>>,
                                  src)
    IN  IF encodeFails(b) THEN [fatal |-> TRUE, units |-> <<indexAction>>]
        ELSE [fatal |-> FALSE,
              units |-> <<indexAction, DocUnit(buildDoc(b, p, os, arch), src),
                          NewlineUnit(src)>>]

\* encodeIndexOp without the test of getEsVersion's error
encodeIndexOpUnchecked(b, p, os, arch, rv, src) ==
    [fatal |-> encodeUnits(b, p, os, arch, getEsVersion(rv).version, src).fatal,
     units |-> encodeUnits(b, p, os, arch, getEsVersion(rv).version, src).units,
     reqs |-> <<Request("version", cfg.host, FALSE, <<>>, versionAuth, rv)>>]

\* encodeIndexOp, the client answering rv to its version check:
\* [fatal, units, reqs]
encodeIndexOp(b, p, os, arch, rv, src) ==
    LET esVersion == getEsVersion(rv)
        get == Request("version", cfg.host, FALSE, <<>>, versionAuth, rv)
    IN  IF ~esVersion.ok THEN [fatal |-> TRUE, units |-> <<>>, reqs |-> <<get>>]
        ELSE [fatal |-> encodeUnits(b, p, os, arch, esVersion.version, src).fatal,
              units |-> encodeUnits(b, p, os, arch, esVersion.version, src).units,
              reqs |-> <<get>>]

-----------------------------------------------------------------------------
(* The inputs of the model *)

ES == <<"http://localhost:9200">>

\* "pkg: x/y " (blanks around the value)
PkgLineA == <<"pkg:", " ", "x", "/", "y", " ">>

\* "pkg:z"
PkgLineB == <<"pkg:", "z">>

GoosLine == <<"goos:", " ", "linux">>

GoarchLine == <<"goarch:", "\t", "amd64">>

\* "BenchmarkA<TAB>100<TAB>5 ns/op<TAB>4386 txs/sec"
BenchLine ==
    <<"Benchmark", "A", "\t", "100", "\t", "5", " ", "ns", "/", "op",
      "\t", "4386", " ", "txs", "/", "sec">>

\* "BenchmarkN<TAB>1<TAB>5 ns/op<TAB>NaN txs/sec"
BenchNaNLine ==
    <<"Benchmark", "N", "\t", "1", "\t", "5", " ", "ns", "/", "op",
      "\t", "NaN", " ", "txs", "/", "sec">>

\* "BenchmarkC<TAB>x<TAB>5 ns/op": the iteration count is no number
NoiseLine == <<"Benchmark", "C", "\t", "x", "\t", "5", " ", "ns", "/", "op">>

InputLines ==
    {PkgLineA, PkgLineB, GoosLine, GoarchLine, BenchLine, BenchNaNLine, NoiseLine}

\* the -tag flag, parsed
TagSets == {<<>>, ("pkg" :> <<"tagged">>) @@ ("team" :> <<"apm">>)}

\* version.number as the store reports it
VersionStrings ==
    {<<"6", ".", "8", ".", "0">>,
     <<"7", ".", "0", ".", "0", "-", "beta1">>,
     <<"7", ".", "0", ".", "0">>,
     <<"8", ".", "0", ".", "0", "-", "rc1">>,
     <<"8", ".", "0", ".", "0">>,
     <<"7", ".", "11">>}

\* the runs of main are made without -es-username and -es-password
Configs ==
    [host : {<<>>, ES}, index : {<<"gobench">>}, verbose : BOOLEAN, tags : TagSets,
     user : {""}, pass : {""}]

\* the host facts and the version-control lookup succeed or fail for the
\* whole run; the store reports one version for the whole run
Envs ==
    {[hostname |-> f, uname |-> f, vcs |-> f, esVersion |-> v] :
        f \in BOOLEAN, v \in VersionStrings}

\* the columns appended to a three-column line for parseExtraMetrics
ExtraColumns ==
    {<<"4386", " ", "txs", "/", "sec">>,
     <<"7.0", " ", "txs", "_", "sec">>,
     <<"5", " ", "ns", "/", "op">>,
     <<"6", " ", "ns", "_", "op">>,
     <<"x", " ", "txs", "/", "sec">>,
     <<"txs", "/", "sec">>,
     <<" ", "9", " ", "errors", "/", "sec", " ">>,
     <<"1", " ", " ", "txs", "/", "sec">>,
     <<"NaN", " ", "spans", "/", "sec">>,
     <<>>}

RECURSIVE WithColumns(_, _)
WithColumns(line, n) ==
    IF n = 0 THEN {line}
    ELSE {line} \cup UNION {WithColumns(line \o <<"\t">> \o c, n - 1) : c \in ExtraColumns}

\* the arguments of parseExtraMetrics: lines of one, two and three columns,
\* and the last with up to MaxExtraCols more columns
ExtraLines ==
    {<<"PASS">>, <<"Benchmark", "A", "\t", "100">>}
    \cup WithColumns(<<"Benchmark", "A", "\t", "100", "\t", "5", " ", "ns", "/", "op">>,
                     MaxExtraCols)

\* the stand-alone calls before they are made
NoUnits == [fatal |-> FALSE, units |-> <<>>]

NoVersion == [ok |-> FALSE, version |-> semverNew(<<>>), err |-> ErrNil]

-----------------------------------------------------------------------------
(* main *)

Init ==
    /\ cfg \in Configs
    /\ env \in Envs
    /\ cfg.host = <<>> => env.esVersion = <<"7", ".", "0", ".", "0">>
    /\ pc = "start"
    /\ exit = "running"
    /\ fatalMsg = ""
    /\ pkg = <<>>
    /\ goos = <<>>
    /\ goarch = <<>>
    /\ input = <<>>
    /\ buf = <<>>
    /\ stdout = <<>>
    /\ requests = <<>>
    /\ xline = <<>>
    /\ xresult = NilMap
    /\ xpc = "idle"
    /\ xunits = NoUnits
    /\ vresp = TransportError
    /\ vresult = NoVersion
    /\ vreq = <<>>

\* log.Fatal / log.Fatalf
Fatal(msg) ==
    /\ pc' = "done"
    /\ exit' = "fatal"
    /\ fatalMsg' = msg

\* lines 241-245 with -es: createMapping, fatal on its error
CreateMapping ==
    /\ pc = "start"
    /\ cfg.host # <<>>
    /\ \E rv \in VersionResponses, rm \in MappingResponses :
         LET m == createMapping(rv, rm)
         IN  /\ requests' = requests \o m.reqs
             /\ IF m.res = "nil"
                THEN pc' = "scan" /\ UNCHANGED <<exit, fatalMsg>>
                ELSE IF m.res = "error"
                THEN Fatal("error creating/updating mapping")
                ELSE IF m.res = "fatal"
                THEN Fatal("handleResponse")
                ELSE pc' = "done" /\ exit' = "panic" /\ UNCHANGED fatalMsg
    /\ UNCHANGED <<cfg, env, pkg, goos, goarch, input, buf, stdout, callvars>>

\* lines 236-238 without -es: no createMapping
SkipMapping ==
    /\ pc = "start"
    /\ cfg.host = <<>>
    /\ pc' = "scan"
    /\ UNCHANGED <<cfg, env, exit, fatalMsg, pkg, goos, goarch, input, buf, stdout,
                   requests, callvars>>

\* type benchmark struct { parse.Benchmark; extra map[string]float64 }
benchmark(b, extra) ==
    [Name |-> b.Name, N |-> b.N, NsPerOp |-> b.NsPerOp, MBPerS |-> b.MBPerS,
     AllocedBytesPerOp |-> b.AllocedBytesPerOp, AllocsPerOp |-> b.AllocsPerOp,
     Measured |-> b.Measured, extra |-> extra]

\* contextValue without the TrimSpace
contextValueUntrimmed(line, prefix) == SubSeq(line, Len(prefix) + 1, Len(line))

\* strings.TrimSpace(line[len(prefix):])
contextValue(line, prefix) == TrimSpace(SubSeq(line, Len(prefix) + 1, Len(line)))

\* scanDefault without the test of ParseLine's error
scanDefaultUnchecked(line, rv, src) ==
    encodeIndexOp(benchmark(ParseLine(line).b, parseExtraMetrics(line)),
                  pkg, goos, goarch, rv, src)

\* the default case of the switch (lines 260-269): [fatal, units, reqs]
scanDefault(line, rv, src) ==
    IF ParseLine(line).ok
    THEN encodeIndexOp(benchmark(ParseLine(line).b, parseExtraMetrics(line)),
                       pkg, goos, goarch, rv, src)
    ELSE [fatal |-> FALSE, units |-> <<>>, reqs |-> <<>>]

\* one turn of the scanner loop (lines 250-271)
ScanLine ==
    /\ pc = "scan"
    /\ Len(input) < MaxLines
    /\ \E line \in InputLines, rv \in VersionResponses :
         /\ input' = Append(input, line)
         /\ IF HasPrefix(line, <<"pkg:">>)
            THEN /\ pkg' = contextValue(line, <<"pkg:">>)
                 /\ UNCHANGED <<goos, goarch, buf, stdout, requests, pc, exit, fatalMsg>>
            ELSE IF HasPrefix(line, <<"goos:">>)
            THEN /\ goos' = contextValue(line, <<"goos:">>)
                 /\ UNCHANGED <<pkg, goarch, buf, stdout, requests, pc, exit, fatalMsg>>
            ELSE IF HasPrefix(line, <<"goarch:">>)
            THEN /\ goarch' = contextValue(line, <<"goarch:">>)
                 /\ UNCHANGED <<pkg, goos, buf, stdout, requests, pc, exit, fatalMsg>>
            ELSE LET r == scanDefault(line, rv, Len(input) + 1)
                 IN  /\ requests' = requests \o r.reqs
                     /\ buf' = IF cfg.host # <<>> THEN buf \o r.units ELSE buf
                     /\ stdout' = IF cfg.host = <<>> \/ cfg.verbose
                                  THEN stdout \o r.units ELSE stdout
                     /\ IF r.fatal
                        THEN Fatal("encodeIndexOp")
                        ELSE UNCHANGED <<pc, exit, fatalMsg>>
                     /\ UNCHANGED <<pkg, goos, goarch>>
    /\ UNCHANGED <<cfg, env, callvars>>

\* lines 272-274: the scanner stopped on a read error
ScanError ==
    /\ pc = "scan"
    /\ Fatal("scanner.Err")
    /\ UNCHANGED <<cfg, env, pkg, goos, goarch, input, buf, stdout, requests,
                   callvars>>

\* lines 275-278: end of input without -es
EndPassthrough ==
    /\ pc = "scan"
    /\ cfg.host = <<>>
    /\ pc' = "done"
    /\ exit' = "ok"
    /\ UNCHANGED <<cfg, env, fatalMsg, pkg, goos, goarch, input, buf, stdout, requests,
                   callvars>>

\* lines 287-309 after client.Do answered resp: "ok", "fatal", "panic".
\* With no response resp is nil and resp.Body panics; the body is decoded
\* twice before handleResponse reads it again.
bulkResultWith(resp, verbose) ==
    IF resp.transport THEN "panic"
    ELSE IF ~Decode(resp.body).ok THEN "fatal"
    ELSE IF ~Decode(Decode(resp.body).rest).ok THEN "fatal"
    ELSE LET h == handleResponseWith(
                      [resp EXCEPT !.body = Decode(Decode(resp.body).rest).rest], verbose)
         IN  IF h.res = "nil" THEN "ok"
             ELSE IF h.res = "panic" THEN "panic"
             ELSE "fatal"

\* the bulk step under the -v flag of the run
bulkResult(resp) == bulkResultWith(resp, cfg.verbose)

\* the log.Fatal call that ends a fatal bulk step
bulkFatalMsg(resp) ==
    IF ~Decode(resp.body).ok \/ ~Decode(Decode(resp.body).rest).ok
    THEN "error jsoninfs"
    ELSE LET h == handleResponse([resp EXCEPT !.body = Decode(Decode(resp.body).rest).rest])
         IN  IF h.res = "fatal" THEN "handleResponse"
             ELSE "error executing bulk updates"

\* lines 280-309: end of input with -es, the bulk request
Bulk ==
    /\ pc = "scan"
    /\ cfg.host # <<>>
    /\ \E rb \in BulkResponses :
         /\ requests' = Append(requests,
                               Request("bulk", cfg.host \o <<"/_bulk">>, FALSE, buf,
                                       bulkAuth, rb))
         /\ pc' = "done"
         /\ exit' = bulkResult(rb)
         /\ fatalMsg' = IF bulkResult(rb) = "fatal" THEN bulkFatalMsg(rb) ELSE fatalMsg
    /\ UNCHANGED <<cfg, env, pkg, goos, goarch, input, buf, stdout, callvars>>

Next ==
    \/ CreateMapping
    \/ SkipMapping
    \/ ScanLine
    \/ ScanError
    \/ EndPassthrough
    \/ Bulk

Spec == Init /\ [][Next]_vars

-----------------------------------------------------------------------------
(* parseExtraMetrics on its own *)

InitExtra ==
    /\ cfg = [host |-> <<>>, index |-> <<"gobench">>, verbose |-> FALSE, tags |-> <<>>,
              user |-> "", pass |-> ""]
    /\ env = [hostname |-> FALSE, uname |-> FALSE, vcs |-> FALSE,
              esVersion |-> <<"7", ".", "0", ".", "0">>]
    /\ pc = "start"
    /\ exit = "running"
    /\ fatalMsg = ""
    /\ pkg = <<>>
    /\ goos = <<>>
    /\ goarch = <<>>
    /\ input = <<>>
    /\ buf = <<>>
    /\ stdout = <<>>
    /\ requests = <<>>
    /\ xline \in ExtraLines
    /\ xresult = NilMap
    /\ xpc = "call"
    /\ xunits = NoUnits
    /\ vresp = TransportError
    /\ vresult = NoVersion
    /\ vreq = <<>>

ParseExtra ==
    /\ xpc = "call"
    /\ xresult' = parseExtraMetrics(xline)
    /\ xpc' = "ret"
    /\ UNCHANGED <<drivervars, xline, xunits, vresp, vresult, vreq>>

NextExtra == ParseExtra

SpecExtra == InitExtra /\ [][NextExtra]_vars

-----------------------------------------------------------------------------
(* encodeIndexOp on its own, after the version is known: one line is parsed *)
(* and its units are written.                                               *)

\* tags that name fields every step of encodeIndexOp writes
DocTagSets ==
    {<<>>,
     ("team" :> <<"apm">>),
     ("name" :> <<"renamed">>) @@ ("ns_per_op" :> <<"fast">>) @@ ("pkg" :> <<"tagged">>),
     ("extra_metrics" :> <<"none">>) @@ ("hostname" :> <<"tagged">>)
        @@ ("git" :> <<"tagged">>)}

\* measurement columns: numbers, a NaN, and numbers ParseUint rejects
MeasureColumns ==
    {<<"5", " ", "ns", "/", "op">>,
     <<"NaN", " ", "ns", "/", "op">>,
     <<"7.0", " ", "MB", "/", "s">>,
     <<"9", " ", "B", "/", "op">>,
     <<"7.0", " ", "B", "/", "op">>,
     <<"1", " ", "allocs", "/", "op">>,
     <<"x", " ", "allocs", "/", "op">>}

RECURSIVE WithMeasures(_, _)
WithMeasures(line, n) ==
    IF n = 0 THEN {line}
    ELSE {line} \cup UNION {WithMeasures(line \o <<"\t">> \o c, n - 1) :
                                c \in MeasureColumns}

\* "BenchmarkM<TAB>100<TAB>5 ns/op<TAB>7.0 MB/s<TAB>9 B/op<TAB>1 allocs/op"
FullLine ==
    <<"Benchmark", "M", "\t", "100", "\t", "5", " ", "ns", "/", "op",
      "\t", "7.0", " ", "MB", "/", "s", "\t", "9", " ", "B", "/", "op",
      "\t", "1", " ", "allocs", "/", "op">>

\* the lines of the stand-alone encodeIndexOp: those of parseExtraMetrics,
\* and lines with up to MaxMeasureCols measurement columns
RecordLines ==
    ExtraLines \cup {FullLine}
    \cup WithMeasures(<<"Benchmark", "M", "\t", "100">>, MaxMeasureCols)

InitDoc ==
    /\ cfg \in [host : {<<>>}, index : {<<"gobench">>}, verbose : {FALSE},
                tags : DocTagSets, user : {""}, pass : {""}]
    /\ env \in {[hostname |-> f, uname |-> f, vcs |-> f,
                  esVersion |-> <<"7", ".", "0", ".", "0">>] : f \in BOOLEAN}
    /\ pc = "start"
    /\ exit = "running"
    /\ fatalMsg = ""
    /\ pkg \in {<<>>, <<"x", "/", "y">>}
    /\ goos = <<"linux">>
    /\ goarch = <<"amd64">>
    /\ input = <<>>
    /\ buf = <<>>
    /\ stdout = <<>>
    /\ requests = <<>>
    /\ xline \in RecordLines
    /\ xresult = NilMap
    /\ xpc = "call"
    /\ xunits = NoUnits
    /\ vresp = TransportError
    /\ vresult = NoVersion
    /\ vreq = <<>>

\* lines 432-455 for the benchmark of xline
EncodeRecord ==
    /\ xpc = "ret"
    /\ ParseLine(xline).ok
    /\ xunits' = encodeUnits(benchmark(ParseLine(xline).b, xresult), pkg, goos, goarch,
                             semverNew(env.esVersion), 1)
    /\ xpc' = "encoded"
    /\ UNCHANGED <<drivervars, xline, xresult, vresp, vresult, vreq>>

NextDoc ==
    \/ ParseExtra
    \/ EncodeRecord

SpecDoc == InitDoc /\ [][NextDoc]_vars

-----------------------------------------------------------------------------
(* main with -es-username and -es-password *)

InitAuth ==
    /\ cfg \in [host : {<<>>, ES}, index : {<<"gobench">>}, verbose : {FALSE},
                tags : {<<>>}, user : {"", "elastic"}, pass : {"", "changeme"}]
    /\ env = [hostname |-> FALSE, uname |-> FALSE, vcs |-> FALSE,
              esVersion |-> <<"7", ".", "0", ".", "0">>]
    /\ pc = "start"
    /\ exit = "running"
    /\ fatalMsg = ""
    /\ pkg = <<>>
    /\ goos = <<>>
    /\ goarch = <<>>
    /\ input = <<>>
    /\ buf = <<>>
    /\ stdout = <<>>
    /\ requests = <<>>
    /\ xline = <<>>
    /\ xresult = NilMap
    /\ xpc = "idle"
    /\ xunits = NoUnits
    /\ vresp = TransportError
    /\ vresult = NoVersion
    /\ vreq = <<>>

SpecAuth == InitAuth /\ [][Next]_vars

-----------------------------------------------------------------------------
(* getEsVersion on its own *)

\* version.number of a body: the versions of the runs, one more release,
\* and the empty string of a body without the field
VersionNumbers ==
    VersionStrings \cup {<<"7", ".", "11", ".", "1">>, <<>>}

\* the bodies of an answer to the GET
VersionBodies ==
    {<<>>, <<Garbage>>, <<ErrorJson("security_exception")>>}
    \cup {<<VersionJson(n)>> : n \in VersionNumbers}

StatusCodes == {200, 401, 500}

\* every answer and no answer
AnyVersionResponses ==
    {TransportError} \cup {Http(st, b) : st \in StatusCodes, b \in VersionBodies}

\* -es-username and -es-password, each given or not
Credentials == [user : {"", "elastic"}, pass : {"", "changeme"}]

InitVersion ==
    /\ cfg \in {[host |-> ES, index |-> <<"gobench">>, verbose |-> FALSE, tags |-> <<>>,
                  user |-> c.user, pass |-> c.pass] : c \in Credentials}
    /\ env = [hostname |-> FALSE, uname |-> FALSE, vcs |-> FALSE,
              esVersion |-> <<"7", ".", "0", ".", "0">>]
    /\ pc = "start"
    /\ exit = "running"
    /\ fatalMsg = ""
    /\ pkg = <<>>
    /\ goos = <<>>
    /\ goarch = <<>>
    /\ input = <<>>
    /\ buf = <<>>
    /\ stdout = <<>>
    /\ requests = <<>>
    /\ xline = <<>>
    /\ xresult = NilMap
    /\ xpc = "call"
    /\ xunits = NoUnits
    /\ vresp \in AnyVersionResponses
    /\ vresult = NoVersion
    /\ vreq = <<>>

\* getEsVersion(cfg), the client answering vresp
CallGetEsVersion ==
    /\ xpc = "call"
    /\ vresult' = getEsVersion(vresp)
    /\ vreq' = <<Request("version", cfg.host, FALSE, <<>>, versionAuth, vresp)>>
    /\ xpc' = "ret"
    /\ UNCHANGED <<drivervars, xline, xresult, xunits, vresp>>

NextVersion == CallGetEsVersion

SpecVersion == InitVersion /\ [][NextVersion]_vars

-----------------------------------------------------------------------------
(* Vocabulary of the properties *)

\* where the encoder writes: the buffer with -es, standard output without
Sink == IF cfg.host = <<>> THEN stdout ELSE buf

IsContextLine(line) ==
    line # <<>> /\ line[1] \in {"pkg:", "goos:", "goarch:"}

\* a line the scanner loop hands to encodeIndexOp
IsBenchmarkLine(line) == ~IsContextLine(line) /\ ParseLine(line).ok

\* the numbers of the benchmark lines among the lines read, in input order
RECURSIVE BenchmarkLineNos(_)
BenchmarkLineNos(n) ==
    IF n = 0 THEN <<>>
    ELSE IF IsBenchmarkLine(input[n]) THEN Append(BenchmarkLineNos(n - 1), n)
    ELSE BenchmarkLineNos(n - 1)

IsDocUnit(u) == u.kind = "doc"

\* the documents of a stream of units, and the lines they were written for
DocsOf(units) == SelectSeq(units, IsDocUnit)

SrcOf(units) == [i \in 1..Len(units) |-> units[i].src]

\* the value of the last line before line n that starts with the prefix,
\* without the blanks around it; empty when there is none
LastContext(prefix, n) ==
    LET before == {i \in 1..(n - 1) : input[i][1] = prefix}
    IN  IF before = {} THEN <<>> ELSE TrimSpace(Tail(input[SetMax(before)]))

ContextPrefix(field) ==
    IF field = "pkg" THEN "pkg:" ELSE IF field = "goos" THEN "goos:" ELSE "goarch:"

BulkRequests == {i \in 1..Len(requests) : requests[i].kind = "bulk"}

\* the scanner loop ended without a read error: main returned without -es,
\* or went on to the bulk request with -es
ReachedEndOfStream == (cfg.host = <<>> /\ exit = "ok") \/ BulkRequests # {}

\* v < M.0.0 in semantic-version order
BelowMajor(v, M) ==
    \/ v.major < M
    \/ v.major = M /\ v.minor = 0 /\ v.patch = 0 /\ v.pre # <<>>

-----------------------------------------------------------------------------
(* C1 *)

\* C1 as stated: in every document written, pkg, goos and goarch are the
\* trimmed values of the last pkg:, goos: and goarch: line read before the
\* document's line (empty when there was none), whatever is read later.
C1_ContextAsStated ==
    \A i \in 1..Len(Sink) :
        IsDocUnit(Sink[i]) =>
            \A f \in {"pkg", "goos", "goarch"} :
                Sink[i].doc[f] = LastContext(ContextPrefix(f), Sink[i].src)

\* C1, amended: in every document written, each of pkg, goos and goarch
\* that no -tag key names is the trimmed value of the last matching context
\* line read before the document's line (empty when there was none),
\* whatever is read later; a field that a -tag key names holds the tag's
\* value instead.
C1_Context ==
    \A i \in 1..Len(Sink) :
        IsDocUnit(Sink[i]) =>
            \A f \in {"pkg", "goos", "goarch"} :
                Sink[i].doc[f] =
                    IF f \in DOMAIN cfg.tags THEN cfg.tags[f]
                    ELSE LastContext(ContextPrefix(f), Sink[i].src)

\* a document written after "pkg: x/y " was replaced by "pkg:z" carries z
C1_Witness ==
    /\ input = <<PkgLineA, PkgLineB, BenchLine>>
    /\ cfg.tags = <<>>
    /\ \E i \in 1..Len(Sink) : IsDocUnit(Sink[i]) /\ Sink[i].doc["pkg"] = <<"z">>

-----------------------------------------------------------------------------
(* C2 *)

\* C2: once the scanner loop has ended without a fatal error, the documents
\* in the sink are one per benchmark line read, in the order of those
\* lines; and a run that encodeIndexOp ended was ended on a benchmark line,
\* never on a context line or on a line that does not parse.
C2_OneDocPerBenchmarkLine ==
    /\ ReachedEndOfStream =>
           SrcOf(DocsOf(Sink)) = BenchmarkLineNos(Len(input))
    /\ fatalMsg = "encodeIndexOp" => IsBenchmarkLine(input[Len(input)])

\* end of stream after a context line, a line that does not parse and a
\* benchmark line: one document
C2_Witness ==
    /\ input = <<PkgLineA, NoiseLine, BenchLine>>
    /\ BulkRequests # {}
    /\ Len(DocsOf(Sink)) = 1

-----------------------------------------------------------------------------
(* C3 *)

\* C3: without -es, unless reading the input fails, the run ends normally,
\* every benchmark line read has its action and document on standard
\* output, and no request went to a store (none names a host).
C3_PassthroughNeedsNoStore ==
    (cfg.host = <<>> /\ pc = "done" /\ fatalMsg # "scanner.Err") =>
        /\ exit = "ok"
        /\ SrcOf(DocsOf(stdout)) = BenchmarkLineNos(Len(input))
        /\ \A i \in 1..Len(requests) : requests[i].url = <<>>

-----------------------------------------------------------------------------
(* C4 *)

\* C4: as long as no record failed to encode, the sink holds, for each
\* record, its index action and then its document, and nothing else.
C4_PairsOnly ==
    fatalMsg # "encodeIndexOp" =>
        /\ Len(Sink) = 2 * Len(DocsOf(Sink))
        /\ \A i \in 1..Len(Sink) :
               Sink[i].kind = IF i % 2 = 1 THEN "action" ELSE "doc"

-----------------------------------------------------------------------------
(* C5 *)

\* C5: with v the version the store reports, the body of the index-creation
\* request nests the mappings under _doc exactly when v < 7.0.0, and every
\* index action carries _type: _doc exactly when v < 8.0.0 and no _type
\* otherwise.
C5_TypeByVersion ==
    LET v == semverNew(env.esVersion)
    IN  /\ \A i \in 1..Len(requests) :
               requests[i].kind = "mapping" =>
                   (requests[i].nested <=> BelowMajor(v, 7))
        /\ \A i \in 1..Len(buf) :
               buf[i].kind = "action" =>
                   buf[i].type = IF BelowMajor(v, 8) THEN <<"_doc">> ELSE <<>>

\* a 7.0.0 store: the mapping is not nested, the action carries _type
C5_Witness ==
    /\ env.esVersion = <<"7", ".", "0", ".", "0">>
    /\ \E i \in 1..Len(requests) : requests[i].kind = "mapping" /\ ~requests[i].nested
    /\ \E i \in 1..Len(buf) : buf[i].kind = "action" /\ buf[i].type = <<"_doc">>

-----------------------------------------------------------------------------
(* C6 *)

\* the version check answered by resp failed: no response, a status other
\* than 200, a body that does not decode, or a number that is no version
VersionCheckFailed(resp) ==
    \/ resp.transport
    \/ resp.status # 200
    \/ resp.body = <<>>
    \/ ~resp.body[1].valid
    \/ resp.body[1].number = <<"7", ".", "11">>

\* C6: with -es, a version check that failed is the last request of the
\* run, and the run ended with a fatal error: neither the index-creation
\* request nor the bulk request follows it.
C6_VersionFailureIsFatal ==
    cfg.host # <<>> =>
        \A i \in 1..Len(requests) :
            (requests[i].kind = "version" /\ VersionCheckFailed(requests[i].resp)) =>
                /\ i = Len(requests)
                /\ exit = "fatal"

\* the version check of the second record failed, after one record was
\* buffered: the run is over and no bulk request was made
C6_Witness ==
    /\ Len(input) = 2
    /\ Len(DocsOf(buf)) = 1
    /\ requests[Len(requests)].kind = "version"
    /\ requests[Len(requests)].resp.status = 401
    /\ exit = "fatal"

-----------------------------------------------------------------------------
(* C7 *)

\* the run ended inside createMapping
EndedInCreateMapping ==
    \/ fatalMsg \in {"error creating/updating mapping", "handleResponse"}
    \/ exit = "panic" /\ BulkRequests = {}

-----------------------------------------------------------------------------
(* C8 *)

\* C8: a run makes at most one bulk request, and none without -es; its
\* body is, for each benchmark line read, the index action and then the
\* document, in input order, and nothing else.
C8_OneBulkOfPairs ==
    /\ Cardinality(BulkRequests) <= 1
    /\ cfg.host = <<>> => BulkRequests = {}
    /\ \A i \in BulkRequests :
           LET body == requests[i].body
               lines == BenchmarkLineNos(Len(input))
           IN  /\ i = Len(requests)
               /\ Len(body) = 2 * Len(lines)
               /\ \A j \in 1..Len(body) :
                      /\ body[j].kind = IF j % 2 = 1 THEN "action" ELSE "doc"
                      /\ body[j].src = lines[(j + 1) \div 2]

-----------------------------------------------------------------------------
(* C9 *)

\* C9: when the bulk request is answered with status 200 and a body that
\* is one well-formed JSON value, the run ends normally.
C9_BulkOkEndsNormally ==
    \A i \in BulkRequests :
        requests[i].resp = Http(200, <<Ack>>) => exit = "ok"

-----------------------------------------------------------------------------
(* C10 *)

\* the columns of a line and the tokens of a column
ColumnsOf(line) == Split(line, "\t")

TokensOf(column) == Split(TrimSpace(column), " ")

\* the columns from the fourth on that hold a number and then a label that
\* is none of ns/op, MB/s, B/op, allocs/op
UsableColumns(line) ==
    {i \in 4..Len(ColumnsOf(line)) :
        LET t == TokensOf(ColumnsOf(line)[i])
        IN  /\ Len(t) >= 2
            /\ ParseFloat(t[1]).ok
            /\ t[2] \notin {<<"ns", "/", "op">>, <<"MB", "/", "s">>,
                            <<"B", "/", "op">>, <<"allocs", "/", "op">>}}

\* the key of a column: its label with "_" for every "/"
KeyOfColumn(line, i) ==
    LET label == TokensOf(ColumnsOf(line)[i])[2]
    IN  [j \in 1..Len(label) |-> IF label[j] = "/" THEN "_" ELSE label[j]]

\* the mapping of the usable columns: each key with the value of the last
\* column that has it
ExpectedExtraMetrics(line) ==
    [k \in {KeyOfColumn(line, i) : i \in UsableColumns(line)} |->
        LET last == SetMax({i \in UsableColumns(line) : KeyOfColumn(line, i) = k})
        IN  ParseFloat(TokensOf(ColumnsOf(line)[last])[1]).v]

\* C10: for a line of four or more tab-separated columns, the entries of
\* the mapping parseExtraMetrics returns are those of the usable columns
\* from the fourth on: columns with a native label, fewer than two tokens
\* or no number contribute nothing, the key is the label with "_" for "/",
\* and of two columns with the same key the later one gives the value.
C10_ExtraMetrics ==
    (xpc = "ret" /\ Len(ColumnsOf(xline)) >= 4) =>
        /\ DOMAIN xresult.m = DOMAIN ExpectedExtraMetrics(xline)
        /\ \A k \in DOMAIN xresult.m : xresult.m[k] = ExpectedExtraMetrics(xline)[k]

\* "4386 txs/sec" and then "7.0 txs_sec": one key, the later value
C10_Witness ==
    /\ xpc = "ret"
    /\ Len(ColumnsOf(xline)) = 5
    /\ ColumnsOf(xline)[4] = <<"4386", " ", "txs", "/", "sec">>
    /\ ColumnsOf(xline)[5] = <<"7.0", " ", "txs", "_", "sec">>
    /\ DOMAIN xresult.m = {<<"txs", "_", "sec">>}
    /\ xresult.m[<<"txs", "_", "sec">>] = Float(7)

-----------------------------------------------------------------------------
(* The document of one record *)

\* the stand-alone encodeIndexOp has written the document of xline
Encoded == xpc = "encoded" /\ ~xunits.fatal

\* that document
XDoc == xunits.units[2].doc

\* a field of XDoc that no tag has replaced by its string
Untagged(k) == k \in DOMAIN XDoc /\ k \notin DOMAIN cfg.tags

\* C11: parseExtraMetrics returns nil or a mapping with at least one entry,
\* never an empty mapping; it returns nil for a line of fewer than three
\* tab-separated columns and for a line with no usable column from the
\* fourth on; and the document has an extra_metrics object only when the
\* mapping has entries, and then it is that mapping.
C11_NilOrNonEmpty ==
    /\ xpc \in {"ret", "encoded"} =>
          /\ xresult.nil <=> DOMAIN xresult.m = {}
          /\ Len(ColumnsOf(xline)) < 3 => xresult.nil
          /\ UsableColumns(xline) = {} => xresult.nil
    /\ (Encoded /\ Untagged("extra_metrics")) =>
          /\ ~xresult.nil
          /\ DOMAIN xresult.m # {}
          /\ XDoc["extra_metrics"] = xresult.m

\* a line of four columns whose fourth is "txs/sec" with no number: nil,
\* and a document without extra_metrics
C11_Witness ==
    /\ Encoded
    /\ Len(ColumnsOf(xline)) = 4
    /\ ColumnsOf(xline)[4] = <<"txs", "/", "sec">>
    /\ xresult.nil
    /\ "extra_metrics" \notin DOMAIN XDoc

\* C12: the tags are merged after every other field is set: the document
\* has every tag key with the tag's value, also when the record, a
\* measurement, the extra metrics, the host or the version control has
\* written a field of that name.
C12_TagsLast ==
    Encoded => \A k \in DOMAIN cfg.tags : k \in DOMAIN XDoc /\ XDoc[k] = cfg.tags[k]

\* tags named hostname, git and extra_metrics on a record for which the
\* host, the version control and parseExtraMetrics all gave a value
C12_Witness ==
    /\ Encoded
    /\ env.hostname /\ env.vcs /\ pkg # <<>>
    /\ ~xresult.nil
    /\ {"hostname", "git", "extra_metrics"} \subseteq DOMAIN cfg.tags
    /\ XDoc["hostname"] = <<"tagged">>
    /\ XDoc["git"] = <<"tagged">>
    /\ XDoc["extra_metrics"] = <<"none">>

\* the flag of each standard measurement field
FlagOf ==
    ("ns_per_op" :> "NsPerOp") @@ ("mb_per_s" :> "MBPerS")
    @@ ("alloced_bytes_per_op" :> "AllocedBytesPerOp")
    @@ ("allocs_per_op" :> "AllocsPerOp")

\* the benchmark the document was made from
XBench == ParseLine(xline).b

\* C14 as stated: the document has a standard measurement field only when
\* its flag is set on the benchmark.
C14_FlaggedOnlyAsStated ==
    Encoded => \A f \in DOMAIN FlagOf : f \in DOMAIN XDoc => FlagOf[f] \in XBench.Measured

\* C14: a standard measurement field that no tag names is in the document
\* exactly when its flag is set on the benchmark; a field whose flag is not
\* set is in the document only as a tag of that name, with the tag's value.
C14_FlaggedOnly ==
    Encoded =>
        \A f \in DOMAIN FlagOf :
            /\ Untagged(f) => FlagOf[f] \in XBench.Measured
            /\ (FlagOf[f] \in XBench.Measured) => f \in DOMAIN XDoc
            /\ (f \in DOMAIN XDoc /\ FlagOf[f] \notin XBench.Measured) =>
                  f \in DOMAIN cfg.tags /\ XDoc[f] = cfg.tags[f]

\* "9 B/op" alone and no tags: alloced_bytes_per_op = 9 and none of the
\* other three fields
C14_Witness ==
    /\ Encoded
    /\ cfg.tags = <<>>
    /\ XBench.Measured = {"AllocedBytesPerOp"}
    /\ XDoc["alloced_bytes_per_op"] = 9
    /\ DOMAIN XDoc \cap DOMAIN FlagOf = {"alloced_bytes_per_op"}

-----------------------------------------------------------------------------
(* The version check *)

\* the numeral of a number
NumeralOf(n) == CHOOSE t \in DOMAIN IntNumerals : IntNumerals[t] = n

\* identifiers joined by "."
RECURSIVE JoinDots(_)
JoinDots(ids) ==
    IF ids = <<>> THEN <<>>
    ELSE IF Len(ids) = 1 THEN ids[1]
    ELSE ids[1] \o <<".">> \o JoinDots(Tail(ids))

\* Version.String()
VersionString(v) ==
    <<NumeralOf(v.major), ".", NumeralOf(v.minor), ".", NumeralOf(v.patch)>>
    \o (IF v.pre = <<>> THEN <<>> ELSE <<"-">> \o JoinDots(v.pre))

\* the version numbers of the model that are semantic versions
ValidNumbers ==
    {<<"6", ".", "8", ".", "0">>,
     <<"7", ".", "0", ".", "0", "-", "beta1">>,
     <<"7", ".", "0", ".", "0">>,
     <<"7", ".", "11", ".", "1">>,
     <<"8", ".", "0", ".", "0", "-", "rc1">>,
     <<"8", ".", "0", ".", "0">>}

\* the answer is a 200 whose body is JSON with a valid version.number
GoodVersionAnswer(resp) ==
    /\ ~resp.transport
    /\ resp.status = 200
    /\ resp.body # <<>>
    /\ resp.body[1].valid
    /\ resp.body[1].number \in ValidNumbers

\* C13: getEsVersion returns a version and no error exactly when the store
\* answers 200 with a body whose version.number is a semantic version, and
\* the version returned is that number; for any other status it returns
\* the error "received unexpected <code> status code" whatever the body
\* is; with a username and a password configured the request carries them
\* as basic-auth credentials.
C13_VersionContract ==
    xpc = "ret" =>
        /\ vresult.ok <=> GoodVersionAnswer(vresp)
        /\ vresult.ok <=> vresult.err = ErrNil
        /\ vresult.ok => VersionString(vresult.version) = vresp.body[1].number
        /\ (~vresp.transport /\ vresp.status # 200) =>
              /\ ~vresult.ok
              /\ vresult.err = Err("received unexpected %d status code", vresp.status)
        /\ (cfg.user # "" /\ cfg.pass # "") =>
              vreq[1].auth = [set |-> TRUE, user |-> cfg.user, pass |-> cfg.pass]

\* 200 with version.number "7.11.1" and both credentials configured
C13_Witness ==
    /\ xpc = "ret"
    /\ cfg.user = "elastic" /\ cfg.pass = "changeme"
    /\ vresp = Http(200, <<VersionJson(<<"7", ".", "11", ".", "1">>)>>)
    /\ vresult.ok
    /\ vresult.version.major = 7 /\ vresult.version.minor = 11
    /\ vresult.version.patch = 1 /\ vresult.version.pre = <<>>
    /\ vreq[1].auth.set

-----------------------------------------------------------------------------
(* Requests, versions and the bulk step of a run *)

\* C15: with -es, the requests of a run are the version check and the
\* index creation of the start and the bulk request of the end: handling
\* the lines read makes no request, so the number of requests does not
\* grow with the number of benchmark lines.
C15_NoRequestWhileScanning ==
    cfg.host # <<>> =>
        /\ Len(requests) <= 3
        /\ \A i \in 1..Len(requests) :
               requests[i].kind = IF i = 1 THEN "version"
                                  ELSE IF i = 2 THEN "mapping" ELSE "bulk"

\* C16: the two decisions follow the major version alone: the mapping is
\* nested under _doc exactly when the major version is below 7 and every
\* index action carries _type exactly when it is below 8, pre-releases
\* such as 7.0.0-beta1 and 8.0.0-rc1 included.
C16_MajorVersionOnly ==
    LET v == semverNew(env.esVersion)
    IN  /\ \A i \in 1..Len(requests) :
               requests[i].kind = "mapping" => (requests[i].nested <=> v.major < 7)
        /\ \A i \in 1..Len(buf) :
               buf[i].kind = "action" =>
                   buf[i].type = IF v.major < 8 THEN <<"_doc">> ELSE <<>>

\* C17: when the bulk request gets no response, the run ends through
\* log.Fatalf("error executing bulk updates: ...").
C17_BulkTransportFatal ==
    \A i \in BulkRequests :
        requests[i].resp.transport =>
            exit = "fatal" /\ fatalMsg = "error executing bulk updates"

\* C18: once the run has ended, every index action in the sink is followed
\* by the document of the same record.
C18_ActionHasDocument ==
    pc = "done" =>
        \A i \in 1..Len(Sink) :
            Sink[i].kind = "action" =>
                /\ i < Len(Sink)
                /\ Sink[i + 1].kind = "doc"
                /\ Sink[i + 1].src = Sink[i].src

\* C19: the -v flag changes neither how a run ends nor what it sends: for
\* every answer the store gave to the index-creation request and to the
\* bulk request, the step ends the same way with and without -v.
C19_VerboseSameOutcome ==
    /\ \A i \in 1..Len(requests) :
           requests[i].kind = "mapping" =>
               mappingResultWith(requests[i].resp, TRUE)
                   = mappingResultWith(requests[i].resp, FALSE)
    /\ \A i \in BulkRequests :
           bulkResultWith(requests[i].resp, TRUE) = bulkResultWith(requests[i].resp, FALSE)

\* C20: with -es, the requests of a run agree on authentication: all carry
\* the basic-auth credentials or none does.
C20_SameAuthentication ==
    cfg.host # <<>> =>
        \A i, j \in 1..Len(requests) : requests[i].auth.set = requests[j].auth.set

====
